---- MODULE Spec2Model ----
(***************************************************************************)
(* A model of htcmap's fingerprinted map engine (src/htcmap/mapper.py):    *)
(* HTCMapper._map, the submission planner, run by several invocations      *)
(* under one map name that share the map's directories and the scheduler;  *)
(* its entry points map, starmap (zip_args_and_kwargs), productmap and     *)
(* build_job (JobBuilder); MapResult.from_clusterid, the reattachment;     *)
(* MapResult's readers (iter, iter_as_available, get, wait) over outputs   *)
(* that the execution wrapper writes asynchronously; and the housekeeping: *)
(* HTCMapper.clean*, MapResult.remove and management.remove and            *)
(* force_remove (src/htmap/management.py).                                 *)
(***************************************************************************)
EXTENDS Integers, Sequences, FiniteSets, TLC

\* ------------------------------------------------------------------ bounds
\* Arguments of a map call are drawn from 1..MaxArg.
MaxArg == 2
\* A map call receives at most MaxItems arguments.
MaxItems == 2
\* get's timeout is None or one of 0..MaxTimeout seconds.
MaxTimeout == 2
\* The decorator is applied at most MaxApply times on top of one function.
MaxApply == 3

\* The map invocations (processes) under the one map name that interleave.
Invocations == {1, 2}

\* The clock stops one tick after the longest timeout.
MaxTime == MaxTimeout + 1

\* clusterid = None of a MapResult; a submitted one is <<c>>.
None == <<>>

VARIABLES
    inputs,        \* inputs_dir: fingerprint -> bytes of <fingerprint>.in
    outputs,       \* outputs_dir: fingerprint -> content of <fingerprint>.out
    mtime,         \* outputs_dir: fingerprint -> when <fingerprint>.out was written
    hashes_files,  \* hashes_dir: clusterid -> text of <clusterid>.hashes
    schedd,        \* the scheduler's queue: the batches in submission order, each
                   \* with who queued it, its items and whether it was removed
    inv,           \* per invocation of _map: its position and its locals
    recon,         \* the MapResult of the last reconstruct(clusterid)
    it,            \* a consumer of MapResult.iter()
    av,            \* a consumer of MapResult.iter_as_available()
    g,             \* a caller of MapResult.get(item, timeout)
    now,           \* time.time(), in seconds
    w,             \* a caller of MapResult.wait(timeout)
    bld,           \* a caller of starmap, productmap or build_job
    mg,            \* a caller of clean*, remove and force_remove
    map_dir,       \* whether the map's directory exists
    dec,           \* a user of the htcmap decorator and of the mapper it gives
    iwi,           \* a consumer of MapResult.iter_with_inputs()
    avi,           \* a consumer of MapResult.iter_as_available_with_inputs()
    job_logs,      \* job_logs_dir: file name -> text of the file
    lg,            \* a caller of MapResult.output(item) and error(item)
    qry            \* a caller of MapResult.query()

planner == <<inputs, outputs, mtime, hashes_files, schedd, inv, recon>>
readers == <<it, av, g, now>>
callers == <<w, bld, mg, map_dir>>
extras == <<dec, iwi, avi, job_logs, lg, qry>>
vars == <<inputs, outputs, mtime, hashes_files, schedd, inv, recon, it, av, g, now,
          w, bld, mg, map_dir, dec, iwi, avi, job_logs, lg, qry>>

\* ------------------------------------------------------- the fingerprint codec
Hex == <<"0", "1", "2", "3", "4", "5", "6", "7",
         "8", "9", "a", "b", "c", "d", "e", "f">>

\* The keyword mappings a call may pass: none, or k = 1.
EmptyKwargs == <<>>
KwargsChoices == {EmptyKwargs}

\* A keyword mapping is the sequence of its <<key, value>> pairs in insertion
\* order; the keys are written with their place in KeyNames.
KeyNames == <<"k", "x", "y">>
KeyCode(key) == CHOOSE i \in 1..Len(KeyNames) : KeyNames[i] = key

RECURSIVE KwBytes(_)
KwBytes(kwargs) ==
    IF kwargs = <<>> THEN <<>>
    ELSE <<KeyCode(kwargs[1][1]), kwargs[1][2]>> \o KwBytes(Tail(kwargs))

\* htcio.to_bytes((args, kwargs)): the positional values, a separator, the
\* keyword mapping's keys and values.
to_bytes(a_and_k) == a_and_k[1] \o <<0>> \o KwBytes(a_and_k[2])

\* The values htcio.to_bytes cannot serialize (an open file, a lock): a call
\* with one among its positional values makes to_bytes raise.
Unpicklable == {0}
Serializable(a_and_k) == \A i \in 1..Len(a_and_k[1]) : a_and_k[1][i] \notin Unpicklable

RECURSIVE Digest(_, _)
Digest(b, acc) ==
    IF b = <<>> THEN acc ELSE Digest(Tail(b), (acc * 31 + Head(b)) % 256)

\* htcio.hash_bytes(b): a fixed-length hex digest of the bytes.
hash_bytes(b) ==
    LET d == Digest(b, 0) IN <<Hex[(d \div 16) + 1], Hex[(d % 16) + 1]>>

\* The function of the map (a doubler) as the execution wrapper applies it to
\* the call loaded from an input blob.
RunFunc(b) == 2 * b[1] + (IF Len(b) > 3 THEN b[4] ELSE 0)

\* ------------------------------------------------------------------ helpers
RECURSIVE SeqsUpTo(_, _)
SeqsUpTo(S, n) ==
    IF n = 0 THEN {<<>>}
    ELSE LET shorter == SeqsUpTo(S, n - 1)
         IN shorter \cup {Append(s, x) : s \in {t \in shorter : Len(t) = n - 1}, x \in S}

RECURSIVE Count(_, _)
Count(s, x) ==
    IF s = <<>> THEN 0 ELSE (IF Head(s) = x THEN 1 ELSE 0) + Count(Tail(s), x)

RECURSIVE SumSeq(_)
SumSeq(s) == IF s = <<>> THEN 0 ELSE Head(s) + SumSeq(Tail(s))

\* The elements of s at the positions where keep is TRUE, in order.
RECURSIVE Pick(_, _)
Pick(s, keep) ==
    IF s = <<>> THEN <<>>
    ELSE (IF Head(keep) THEN <<Head(s)>> ELSE <<>>) \o Pick(Tail(s), Tail(keep))

Put(f, k, v) == [x \in DOMAIN f \cup {k} |-> IF x = k THEN v ELSE f[x]]

\* --------------------------------------------------------------- the manifest
RECURSIVE JoinLines(_)
\* '\n'.join(hashes)
JoinLines(hs) ==
    IF hs = <<>> THEN <<>>
    ELSE IF Len(hs) = 1 THEN hs[1]
    ELSE hs[1] \o <<"\n">> \o JoinLines(Tail(hs))

\* The text _map writes to <clusterid>.hashes.
ManifestJoinAll(hashes) == JoinLines(hashes)

RECURSIVE FileLines(_, _)
\* Iterating a text file: its lines, each with its line end; cur is the line
\* being read.
FileLines(text, cur) ==
    IF text = <<>> THEN (IF cur = <<>> THEN <<>> ELSE <<cur>>)
    ELSE IF Head(text) = "\n" THEN <<Append(cur, "\n")>> \o FileLines(Tail(text), <<>>)
    ELSE FileLines(Tail(text), Append(cur, Head(text)))

Whitespace == {"\n", " "}

RECURSIVE LStrip(_)
LStrip(s) == IF s # <<>> /\ Head(s) \in Whitespace THEN LStrip(Tail(s)) ELSE s

RECURSIVE RStrip(_)
RStrip(s) ==
    IF s # <<>> /\ s[Len(s)] \in Whitespace THEN RStrip(SubSeq(s, 1, Len(s) - 1)) ELSE s

\* str.strip()
Strip(s) == RStrip(LStrip(s))

\* A reader of the manifest that keeps each line's end.
from_clusterid_nostrip(text) == FileLines(text, <<>>)

\* MapResult.from_clusterid: the hashes read back from the manifest text.
from_clusterid(text) ==
    LET lines == FileLines(text, <<>>) IN [i \in 1..Len(lines) |-> Strip(lines[i])]

\* ------------------------------------------------------------------- Init
\* An invocation of _map: its position (pc), its work items, its locals hashes,
\* new_hashes and clusterid, and what it observed and did: pre, whether the
\* output of every one of its items was present when it started; sat, per
\* item, what output_path.exists() answered; saved, per item, whether
\* save_bytes was called.
IdleInv ==
    [pc |-> "idle", items |-> <<>>, hashes |-> <<>>, new_hashes |-> <<>>,
     pre |-> FALSE, sat |-> <<>>, saved |-> <<>>, clusterid |-> None]

NoResult == [clusterid |-> None, hashes |-> <<>>, err |-> "none"]

IdleIter == [pc |-> "idle", hashes |-> <<>>, yielded |-> <<>>]

IdleAv == [pc |-> "idle", hashes |-> <<>>, paths |-> {}, scan |-> {}, yielded |-> <<>>]

IdleGet ==
    [pc |-> "idle", hashes |-> <<>>, item |-> <<>>, timeout |-> None, start |-> 0,
     elapsed |-> 0, value |-> 0, err |-> "none"]

\* A caller of MapResult.wait: its position, the handle's hash_set, the
\* timeout, start_time, and the time from the call to the return or the raise.
IdleWait ==
    [pc |-> "idle", hash_set |-> {}, timeout |-> None, start |-> 0, elapsed |-> 0]

\* A caller of starmap, productmap or build_job: the operation, what it was
\* given (for build_job, what the calls accumulated), the builder's _result
\* and what the last read of its result property gave.
IdleBuild ==
    [pc |-> "idle", op |-> "none", args |-> <<>>, kwargs |-> <<>>,
     result |-> None, read |-> [at |-> "none", got |-> "none"]]

\* The caller of the housekeeping operations: the last operation it called
\* (clean, clean_inputs, clean_outputs, MapResult.remove, management.remove or
\* force_remove) and, for management.remove, the map id and not_exist_ok it
\* passed, the exception caught inside and the exception that came out.
IdleManage ==
    [op |-> "none", map_id |-> "none", not_exist_ok |-> TRUE,
     caught |-> "none", err |-> "none"]

\* A user of the decorator: the object it last decorated (prev), the object
\* the decorator gave (obj), how often it decorated, and the last direct call
\* of obj: the argument and what came back.  An object is a function (with
\* its __name__ and the factor k it multiplies by) or an HTCMapper (with its
\* name and, in func, the object it wraps).
NoObject == [kind |-> "none", name |-> "none", k |-> 0, func |-> <<>>]
IdleDec == [obj |-> NoObject, prev |-> NoObject, applied |-> 0, called |-> <<>>]

\* A consumer of iter_with_inputs or iter_as_available_with_inputs.
IdleIwi == [pc |-> "idle", hashes |-> <<>>, yielded |-> <<>>]
IdleAvi == [pc |-> "idle", hashes |-> <<>>, paths |-> {}, scan |-> {}, yielded |-> <<>>]

\* A caller of output(item) or error(item): the stream, the resolved hash,
\* the text read and the exception raised.
IdleLog == [pc |-> "idle", stream |-> "none", h |-> <<>>, text |-> <<>>, err |-> "none"]

\* A caller of query(): the handle's clusterid, the requirements of every
\* xquery made on the scheduler, and the records yielded.
IdleQuery == [pc |-> "idle", clusterid |-> None, xqueries |-> <<>>, records |-> <<>>]

InitExtras ==
    /\ dec = IdleDec
    /\ iwi = IdleIwi
    /\ avi = IdleAvi
    /\ job_logs = <<>>
    /\ lg = IdleLog
    /\ qry = IdleQuery

\* No reader and no caller is active; HTCMapper.__init__ made the directories.
InitCallers ==
    /\ w = IdleWait
    /\ bld = IdleBuild
    /\ mg = IdleManage
    /\ map_dir = TRUE
    /\ InitExtras

Init ==
    /\ inputs = <<>>
    /\ outputs = <<>>
    /\ mtime = <<>>
    /\ hashes_files = <<>>
    /\ schedd = <<>>
    /\ inv = [p \in Invocations |-> IdleInv]
    /\ recon = NoResult
    /\ it = IdleIter
    /\ av = IdleAv
    /\ g = IdleGet
    /\ now = 0
    /\ InitCallers

\* ------------------------------------------------------- HTCMapper.map / _map
\* HTCMapper.map: each argument is the sole positional argument, the keyword
\* mapping is shared.
MapItems(args, kwargs) == [i \in 1..Len(args) |-> <<<<args[i]>>, kwargs>>]

\* A planner that never finds a cached output.
OutputExistsNever(h) == FALSE

\* output_path.exists()
OutputExists(h) == h \in DOMAIN outputs

\* map(args, **kwargs) is called: _map starts over its work items.
Start(p) ==
    /\ inv[p].pc = "idle"
    /\ \E args \in SeqsUpTo(1..MaxArg, MaxItems), kwargs \in KwargsChoices :
           LET items == MapItems(args, kwargs)
           IN inv' = [inv EXCEPT ![p] =
                         [IdleInv EXCEPT !.pc = "plan", !.items = items,
                                         !.pre = \A i \in 1..Len(items) :
                                                    hash_bytes(to_bytes(items[i]))
                                                        \in DOMAIN outputs]]
    /\ UNCHANGED <<inputs, outputs, mtime, hashes_files, schedd, recon, readers, callers, extras>>

\* A loop body without the `continue`.
SavesInputAlways(exists) == TRUE

\* Whether the loop body goes on to save the input (it does not `continue`).
SavesInput(exists) == ~exists

\* A loop body that catches what to_bytes raises and goes on.
PropagatesNever(raised) == FALSE

\* The loop body has no handler: what to_bytes raises leaves _map.
Propagates(raised) == raised

\* One pass of the loop of _map over the next work item: the exception of
\* to_bytes ends _map, or the item is hashed and, if unsatisfied, saved.
PlanItem(p) ==
    /\ inv[p].pc = "plan"
    /\ Len(inv[p].hashes) < Len(inv[p].items)
    /\ LET a_and_k == inv[p].items[Len(inv[p].hashes) + 1]
           b == to_bytes(a_and_k)
           h == hash_bytes(b)
           exists == OutputExists(h)
           save == SavesInput(exists)
       IN IF Propagates(~Serializable(a_and_k))
          THEN /\ inputs' = inputs
               /\ inv' = [inv EXCEPT ![p].pc = "raised"]
          ELSE /\ inputs' = IF save THEN Put(inputs, h, b) ELSE inputs
               /\ inv' = [inv EXCEPT ![p].hashes = Append(@, h),
                                     ![p].sat = Append(@, exists),
                                     ![p].saved = Append(@, save),
                                     ![p].new_hashes = IF save THEN Append(@, h) ELSE @]
    /\ UNCHANGED <<outputs, mtime, hashes_files, schedd, recon, readers, callers, extras>>

\* An off-by-one test of the batch being empty.
NoNewHashesOffByOne(new_hashes) == Len(new_hashes) <= 1

\* len(new_hashes) == 0
NoNewHashes(new_hashes) == Len(new_hashes) = 0

\* The loop is over: return without a submission, or go on to submit.
EndPlan(p) ==
    /\ inv[p].pc = "plan"
    /\ Len(inv[p].hashes) = Len(inv[p].items)
    /\ inv' = [inv EXCEPT ![p].pc = IF NoNewHashes(inv[p].new_hashes)
                                    THEN "done" ELSE "submit"]
    /\ UNCHANGED <<inputs, outputs, mtime, hashes_files, schedd, recon, readers, callers, extras>>

\* A submission of every hash, the satisfied ones too.
ItemDataAll(hashes, new_hashes) == hashes

\* The item data of queue_with_itemdata.
ItemData(hashes, new_hashes) == new_hashes

\* schedd.transaction(): the batch is queued and the scheduler gives its
\* cluster id.
Submit(p) ==
    /\ inv[p].pc = "submit"
    /\ schedd' = Append(schedd, [by |-> p,
                                 items |-> ItemData(inv[p].hashes, inv[p].new_hashes),
                                 removed |-> FALSE])
    /\ inv' = [inv EXCEPT ![p].pc = "persist", ![p].clusterid = <<Len(schedd) + 1>>]
    /\ UNCHANGED <<inputs, outputs, mtime, hashes_files, recon, readers, callers, extras>>

\* The manifest is written and the MapResult returned.
Persist(p) ==
    /\ inv[p].pc = "persist"
    /\ hashes_files' = Put(hashes_files, inv[p].clusterid[1],
                           ManifestJoinAll(inv[p].hashes))
    /\ inv' = [inv EXCEPT ![p].pc = "done"]
    /\ UNCHANGED <<inputs, outputs, mtime, schedd, recon, readers, callers, extras>>

\* The submitting process dies at any step of _map: its locals are lost, the
\* files and the scheduler's queue stay.
Crash(p) ==
    /\ inv[p].pc \in {"plan", "submit", "persist"}
    /\ inv' = [inv EXCEPT ![p] = [IdleInv EXCEPT !.pc = "crashed"]]
    /\ UNCHANGED <<inputs, outputs, mtime, hashes_files, schedd, recon, readers, callers, extras>>

\* ------------------------------------------------------ the execution wrapper
\* A queued job of a batch that was not removed runs: the wrapper loads the
\* input blob of its item and writes the output blob.
RunJob(c, j) ==
    /\ c \in 1..Len(schedd)
    /\ j \in 1..Len(schedd[c].items)
    /\ ~schedd[c].removed
    /\ LET h == schedd[c].items[j]
       IN /\ h \in DOMAIN inputs
          /\ h \notin DOMAIN outputs
          /\ outputs' = Put(outputs, h, RunFunc(inputs[h]))
          /\ mtime' = Put(mtime, h, now)
    /\ UNCHANGED <<inputs, hashes_files, schedd, inv, recon, readers, callers, extras>>

\* ------------------------------------------------------ HTCMapper.reconstruct
Reconstruct(c) ==
    /\ recon' = IF c \in DOMAIN hashes_files
                THEN [clusterid |-> <<c>>, hashes |-> from_clusterid(hashes_files[c]),
                      err |-> "none"]
                ELSE [clusterid |-> None, hashes |-> <<>>, err |-> "FileNotFoundError"]
    /\ UNCHANGED <<inputs, outputs, mtime, hashes_files, schedd, inv, readers, callers, extras>>

Next ==
    \/ \E p \in Invocations : Start(p)
    \/ \E p \in Invocations : PlanItem(p)
    \/ \E p \in Invocations : EndPlan(p)
    \/ \E p \in Invocations : Submit(p)
    \/ \E p \in Invocations : Persist(p)
    \/ \E p \in Invocations : Crash(p)
    \/ \E c \in 1..Len(schedd) : \E j \in 1..MaxItems : RunJob(c, j)

Spec == Init /\ [][Next]_vars

\* The planner with a later process that reattaches by cluster id.
NextReattach ==
    \/ Next
    \/ \E c \in 1..Len(schedd) : Reconstruct(c)

SpecReattach == Init /\ [][NextReattach]_vars

\* ------------------------------------------------------------ MapResult.iter
\* The MapResult an invocation returned.
Handle(p) == [clusterid |-> inv[p].clusterid, hashes |-> inv[p].hashes]

\* iter() is called on a returned MapResult.
IterStart(p) ==
    /\ it.pc = "idle"
    /\ inv[p].pc = "done"
    /\ it' = [pc |-> "run", hashes |-> Handle(p).hashes, yielded |-> <<>>]
    /\ UNCHANGED <<planner, av, g, now, callers, extras>>

\* A loop over the hashes from the last to the first.
IterHashReversed(hashes, k) == hashes[Len(hashes) - k + 1]

\* The hash the loop of iter visits k-th.
IterHash(hashes, k) == hashes[k]

\* The consumer asks for the next output: wait_for_path_to_exist(path, None)
\* returns once the path exists, and the loaded output is yielded.
IterYield ==
    /\ it.pc = "run"
    /\ Len(it.yielded) < Len(it.hashes)
    /\ LET h == IterHash(it.hashes, Len(it.yielded) + 1)
       IN /\ OutputExists(h)
          /\ it' = [it EXCEPT !.yielded = Append(@, outputs[h])]
    /\ UNCHANGED <<planner, av, g, now, callers, extras>>

\* The loop of iter is over.
IterEnd ==
    /\ it.pc = "run"
    /\ Len(it.yielded) = Len(it.hashes)
    /\ it' = [it EXCEPT !.pc = "done"]
    /\ UNCHANGED <<planner, av, g, now, callers, extras>>

\* ------------------------------------------------- MapResult.iter_as_available
\* paths = {outputs_dir / f'{h}.out' for h in self.hashes}
AvPaths(hashes) == {hashes[i] : i \in 1..Len(hashes)}

\* iter_as_available() is called on a returned MapResult.
AvStart(p) ==
    /\ av.pc = "idle"
    /\ inv[p].pc = "done"
    /\ av' = [pc |-> "loop", hashes |-> Handle(p).hashes,
              paths |-> AvPaths(Handle(p).hashes), scan |-> {}, yielded |-> <<>>]
    /\ UNCHANGED <<planner, it, g, now, callers, extras>>

\* A loop that goes on when paths is empty: while True.
AvPassWhileTrue ==
    /\ av.pc = "loop"
    /\ av' = [av EXCEPT !.pc = "scan", !.scan = av.paths]
    /\ UNCHANGED <<planner, it, g, now, callers, extras>>

\* while len(paths) > 0: a pass over a copy of paths begins, or the generator ends.
AvPass ==
    /\ av.pc = "loop"
    /\ av' = IF av.paths = {} THEN [av EXCEPT !.pc = "done"]
             ELSE [av EXCEPT !.pc = "scan", !.scan = av.paths]
    /\ UNCHANGED <<planner, it, g, now, callers, extras>>

\* The pass visits a path of the copy, in the copy's (arbitrary) order: an
\* absent one is skipped, a present one is removed from paths and yielded.
AvVisit(path) ==
    /\ av.pc = "scan"
    /\ path \in av.scan
    /\ av' = IF OutputExists(path)
             THEN [av EXCEPT !.scan = @ \ {path}, !.paths = @ \ {path},
                             !.yielded = Append(@, outputs[path])]
             ELSE [av EXCEPT !.scan = @ \ {path}]
    /\ UNCHANGED <<planner, it, g, now, callers, extras>>

\* The pass is over: time.sleep(1), then the while condition again.
AvSleep ==
    /\ av.pc = "scan"
    /\ av.scan = {}
    /\ av' = [av EXCEPT !.pc = "loop"]
    /\ UNCHANGED <<planner, it, g, now, callers, extras>>

\* ------------------------------------------------------------- MapResult.get
\* An item is an index (int) or a hash (str).
IntItem(i) == [kind |-> "int", i |-> i, h |-> <<>>]
StrItem(h) == [kind |-> "str", i |-> 0, h |-> h]

\* The items and the timeouts get is called with.
GetItems ==
    {IntItem(i) : i \in -(MaxItems + 1)..MaxItems} \cup
    {StrItem(hash_bytes(to_bytes(<<<<a>>, kw>>))) : a \in 1..(MaxArg + 1), kw \in KwargsChoices}

GetTimeouts == {None} \cup {<<t>> : t \in 0..MaxTimeout}

\* self.hashes[item] of a tuple: an index from the end when negative; Error
\* stands for Python's IndexError.
IndexError == <<"IndexError">>

PyIndex(hashes, i) ==
    IF 0 <= i /\ i < Len(hashes) THEN hashes[i + 1]
    ELSE IF -Len(hashes) <= i /\ i < 0 THEN hashes[Len(hashes) + i + 1]
    ELSE IndexError

\* MapResult._item_to_hash
item_to_hash(hashes, item) ==
    IF item.kind = "int" THEN PyIndex(hashes, item.i) ELSE item.h

\* A test of the timeout that takes 0 for a positive timeout.
GetErrorStrict(timeout) == IF timeout < 0 THEN "OutputNotFound" ELSE "TimeoutError"

\* The error get raises when wait_for_path_to_exist raised TimeoutError.
GetError(timeout) == IF timeout <= 0 THEN "OutputNotFound" ELSE "TimeoutError"

\* get(item, timeout) is called: the item is resolved and checked against
\* hash_set, then the wait for the output path starts.
GetCall(p, item, timeout) ==
    /\ g.pc = "idle"
    /\ inv[p].pc = "done"
    /\ LET hashes == Handle(p).hashes
           h == item_to_hash(hashes, item)
           call == [IdleGet EXCEPT !.hashes = hashes, !.item = h, !.timeout = timeout,
                                   !.start = now]
       IN g' = IF h = IndexError THEN [call EXCEPT !.pc = "raised", !.err = "IndexError"]
               ELSE IF h \notin AvPaths(hashes)
               THEN [call EXCEPT !.pc = "raised", !.err = "HashNotInResult"]
               ELSE [call EXCEPT !.pc = "wait"]
    /\ UNCHANGED <<planner, it, av, now, callers, extras>>

\* utils.wait_for_path_to_exist(path, timeout) at one poll: whether the wait
\* gives up, the path being absent.
WaitTimedOut(timeout, start) == timeout # None /\ now - start >= timeout[1]

\* A poll finds the output: the wait returns and get loads the output.
GetReturn ==
    /\ g.pc = "wait"
    /\ OutputExists(g.item)
    /\ g' = [g EXCEPT !.pc = "returned", !.elapsed = now - g.start,
                      !.value = outputs[g.item]]
    /\ UNCHANGED <<planner, it, av, now, callers, extras>>

\* A poll finds no output and the timeout has elapsed: the wait raises
\* TimeoutError, which get lets through or turns into OutputNotFound.  (A poll
\* that finds no output before that sleeps and changes nothing.)
GetRaise ==
    /\ g.pc = "wait"
    /\ ~OutputExists(g.item)
    /\ WaitTimedOut(g.timeout, g.start)
    /\ g' = [g EXCEPT !.pc = "raised", !.elapsed = now - g.start,
                      !.err = GetError(g.timeout[1])]
    /\ UNCHANGED <<planner, it, av, now, callers, extras>>

\* A second passes.
Tick ==
    /\ now < MaxTime
    /\ now' = now + 1
    /\ UNCHANGED <<planner, it, av, g, callers, extras>>

\* ------------------------------------------------------------ MapResult.wait
\* A test that subtracts the handle's hashes from the outputs present.
is_missing_hashes_reversed(hash_set) == (DOMAIN outputs) \ hash_set # {}

\* is_missing_hashes(): the stems of the files of outputs_dir are taken from
\* hash_set; whether any hash is left.
is_missing_hashes(hash_set) == hash_set \ (DOMAIN outputs) # {}

\* timeout is not None and time.time() - timeout > start_time
WaitExpired(timeout, start) == timeout # None /\ now - timeout[1] > start

\* wait(timeout) is called on a returned MapResult: start_time is taken.
WaitCall(p, timeout) ==
    /\ w.pc = "idle"
    /\ inv[p].pc = "done"
    /\ w' = [IdleWait EXCEPT !.pc = "loop", !.hash_set = AvPaths(Handle(p).hashes),
                             !.timeout = timeout, !.start = now]
    /\ UNCHANGED <<planner, readers, bld, mg, map_dir, extras>>

\* The while condition finds no hash missing: wait returns.
WaitReturn ==
    /\ w.pc = "loop"
    /\ ~is_missing_hashes(w.hash_set)
    /\ w' = [w EXCEPT !.pc = "returned", !.elapsed = now - w.start]
    /\ UNCHANGED <<planner, readers, bld, mg, map_dir, extras>>

\* The while condition finds a hash missing and the timeout is over: wait
\* raises TimeoutError.  (Otherwise the body sleeps a second and changes
\* nothing.)
WaitRaise ==
    /\ w.pc = "loop"
    /\ is_missing_hashes(w.hash_set)
    /\ WaitExpired(w.timeout, w.start)
    /\ w' = [w EXCEPT !.pc = "raised", !.elapsed = now - w.start]
    /\ UNCHANGED <<planner, readers, bld, mg, map_dir, extras>>

\* ------------------------------------------------- the readers' specifications
\* The store, the queue and the MapResult after one map(args, **kwargs) on a
\* fresh map: every item was unsatisfied, so every input is written and every
\* hash is in the one batch.
AfterFreshMap(items) ==
    LET bytes == [i \in 1..Len(items) |-> to_bytes(items[i])]
        hashes == [i \in 1..Len(items) |-> hash_bytes(bytes[i])]
        done == [IdleInv EXCEPT !.pc = "done", !.items = items, !.hashes = hashes,
                                !.new_hashes = hashes,
                                !.sat = [i \in 1..Len(items) |-> FALSE],
                                !.saved = [i \in 1..Len(items) |-> TRUE],
                                !.clusterid = IF items = <<>> THEN None ELSE <<1>>]
    IN /\ inputs = [h \in AvPaths(hashes) |->
                       bytes[CHOOSE i \in 1..Len(items) : hashes[i] = h]]
       /\ outputs = <<>>
       /\ mtime = <<>>
       /\ schedd = IF items = <<>> THEN <<>>
                   ELSE <<[by |-> 1, items |-> hashes, removed |-> FALSE]>>
       /\ hashes_files = IF items = <<>> THEN <<>>
                         ELSE [c \in {1} |-> ManifestJoinAll(hashes)]
       /\ inv = [p \in Invocations |-> IF p = 1 THEN done ELSE IdleInv]
       /\ recon = NoResult

InitRead ==
    /\ \E args \in SeqsUpTo(1..MaxArg, MaxItems), kwargs \in KwargsChoices :
           AfterFreshMap(MapItems(args, kwargs))
    /\ it = IdleIter
    /\ av = IdleAv
    /\ g = IdleGet
    /\ now = 0
    /\ InitCallers

NextRead ==
    \/ \E c \in 1..Len(schedd) : \E j \in 1..MaxItems : RunJob(c, j)
    \/ \E p \in Invocations : IterStart(p)
    \/ IterYield
    \/ IterEnd
    \/ \E p \in Invocations : AvStart(p)
    \/ AvPass
    \/ \E path \in av.scan : AvVisit(path)
    \/ AvSleep

SpecRead == InitRead /\ [][NextRead]_vars

\* The caller of iter_as_available keeps consuming: the generator's code runs
\* on, statement after statement.  Nothing is assumed of the jobs.
SpecReadFair ==
    /\ SpecRead
    /\ WF_vars(AvPass)
    /\ WF_vars(\E path \in av.scan : AvVisit(path))
    /\ WF_vars(AvSleep)

NextGet ==
    \/ \E c \in 1..Len(schedd) : \E j \in 1..MaxItems : RunJob(c, j)
    \/ \E p \in Invocations : \E item \in GetItems, timeout \in GetTimeouts :
           GetCall(p, item, timeout)
    \/ GetReturn
    \/ GetRaise
    \/ Tick

SpecGet == InitRead /\ [][NextGet]_vars

NextWait ==
    \/ \E c \in 1..Len(schedd) : \E j \in 1..MaxItems : RunJob(c, j)
    \/ \E p \in Invocations : \E timeout \in GetTimeouts : WaitCall(p, timeout)
    \/ WaitReturn
    \/ WaitRaise
    \/ Tick

SpecWait == InitRead /\ [][NextWait]_vars

\* ------------------------------------------------------- zip_args_and_kwargs
\* An iterator is the rest of its sequence, or (rep) itertools.repeat of a
\* fill.  fills = {0: (), 1: {}}: the empty tuple and the empty mapping.
IterOf(seq) == [rep |-> FALSE, rest |-> seq]
RepeatOf(fill) == [rep |-> TRUE, rest |-> <<fill>>]
Fills == << <<>>, <<>> >>

\* next(it): StopIteration (stop), or the value and the iterator after it.
NextOf(iter) ==
    IF iter.rep THEN [stop |-> FALSE, value |-> iter.rest[1], iter |-> iter]
    ELSE IF iter.rest # <<>>
    THEN [stop |-> FALSE, value |-> Head(iter.rest), iter |-> IterOf(Tail(iter.rest))]
    ELSE [stop |-> TRUE, value |-> <<>>, iter |-> iter]

RECURSIVE zip_rounds(_, _, _, _)
\* The while loop from one round on: each iterator in turn gives its next
\* value, or on StopIteration is counted out and replaced by the repetition of
\* its fill; the generator returns when the count reaches 0, and otherwise
\* yields the pair of values.
zip_rounds(it0, it1, num_active, yielded) ==
    LET n0 == NextOf(it0)
        active0 == IF n0.stop THEN num_active - 1 ELSE num_active
        v0 == IF n0.stop THEN Fills[1] ELSE n0.value
        j0 == IF n0.stop THEN RepeatOf(Fills[1]) ELSE n0.iter
        n1 == NextOf(it1)
        active1 == IF n1.stop THEN active0 - 1 ELSE active0
        v1 == IF n1.stop THEN Fills[2] ELSE n1.value
        j1 == IF n1.stop THEN RepeatOf(Fills[2]) ELSE n1.iter
    IN IF n0.stop /\ active0 = 0 THEN yielded
       ELSE IF n1.stop /\ active1 = 0 THEN yielded
       ELSE zip_rounds(j0, j1, active1, Append(yielded, <<v0, v1>>))

\* A zip that ends with the shorter of the two.
zip_shortest(args, kwargs) ==
    [i \in 1..(IF Len(args) < Len(kwargs) THEN Len(args) ELSE Len(kwargs)) |->
        <<args[i], kwargs[i]>>]

\* A zip that goes on with the last element of the one that ended.
zip_repeat_last(args, kwargs) ==
    LET n == IF Len(args) > Len(kwargs) THEN Len(args) ELSE Len(kwargs)
        at(seq, i, fill) == IF i <= Len(seq) THEN seq[i]
                            ELSE IF seq = <<>> THEN fill ELSE seq[Len(seq)]
    IN [i \in 1..n |-> <<at(args, i, Fills[1]), at(kwargs, i, Fills[2])>>]

\* zip_args_and_kwargs(args, kwargs): everything the generator yields.
zip_args_and_kwargs(args, kwargs) == zip_rounds(IterOf(args), IterOf(kwargs), 2, <<>>)

\* ------------------------------------------- HTCMapper.starmap and build_job
\* The positional tuples and the keyword mappings of the calls: one value,
\* serializable or not; no keyword or k = 1.
ArgTuples == {<<a>> : a \in (1..MaxArg) \cup Unpicklable}
KwMappings == {<<>>, << <<"k", 1>> >>}

\* _map begins over the work items.
Planning(items) ==
    [IdleInv EXCEPT !.pc = "plan", !.items = items,
                    !.pre = \A i \in 1..Len(items) :
                               hash_bytes(to_bytes(items[i])) \in DOMAIN outputs]

\* starmap(args, kwargs) is called: _map starts over the zipped pairs.
StarmapCall(args, kwargs) ==
    /\ bld.pc = "idle"
    /\ inv[1].pc = "idle"
    /\ bld' = [IdleBuild EXCEPT !.pc = "called", !.op = "starmap",
                                !.args = args, !.kwargs = kwargs]
    /\ inv' = [inv EXCEPT ![1] = Planning(zip_args_and_kwargs(args, kwargs))]
    /\ UNCHANGED <<inputs, outputs, mtime, hashes_files, schedd, recon, readers,
                   w, mg, map_dir, extras>>

\* with mapper.build_job() as builder: JobBuilder.__init__ and __enter__.
BuildJob ==
    /\ bld.pc = "idle"
    /\ inv[1].pc = "idle"
    /\ bld' = [IdleBuild EXCEPT !.pc = "open", !.op = "build_job"]
    /\ UNCHANGED <<planner, readers, w, mg, map_dir, extras>>

\* JobBuilder.__call__(*args, **kwargs) inside the with block.
BuilderCall(args, kwargs) ==
    /\ bld.pc = "open"
    /\ Len(bld.args) < MaxItems
    /\ bld' = [bld EXCEPT !.args = Append(@, args), !.kwargs = Append(@, kwargs)]
    /\ UNCHANGED <<planner, readers, w, mg, map_dir, extras>>

\* A result property that hands out _result unchecked.
BuilderResultUnchecked(result) == "handle"

\* JobBuilder.result: NoResultYet while _result is None.
BuilderResult(result) == IF result = None THEN "NoResultYet" ELSE "handle"

\* builder.result is read, inside the with block or after it.
BuilderRead ==
    /\ bld.pc \in {"open", "closed", "failed"}
    /\ bld' = [bld EXCEPT !.read = [at |-> bld.pc, got |-> BuilderResult(bld.result)]]
    /\ UNCHANGED <<planner, readers, w, mg, map_dir, extras>>

\* JobBuilder.__exit__: starmap(self.args, self.kwargs) is called.
BuilderExit ==
    /\ bld.pc = "open"
    /\ bld' = [bld EXCEPT !.pc = "exiting"]
    /\ inv' = [inv EXCEPT ![1] = Planning(zip_args_and_kwargs(bld.args, bld.kwargs))]
    /\ UNCHANGED <<inputs, outputs, mtime, hashes_files, schedd, recon, readers,
                   w, mg, map_dir, extras>>

\* starmap is over inside __exit__: its MapResult is assigned to result, or
\* its exception leaves __exit__ and result stays None.
BuilderExitEnd ==
    /\ bld.pc = "exiting"
    /\ inv[1].pc \in {"done", "raised"}
    /\ bld' = IF inv[1].pc = "done"
              THEN [bld EXCEPT !.pc = "closed", !.result = <<Handle(1)>>]
              ELSE [bld EXCEPT !.pc = "failed"]
    /\ UNCHANGED <<planner, readers, w, mg, map_dir, extras>>

NextBuild ==
    \/ /\ bld.pc = "idle"
       /\ \E args \in SeqsUpTo(ArgTuples, MaxItems), kwargs \in SeqsUpTo(KwMappings, MaxItems) :
              StarmapCall(args, kwargs)
    \/ BuildJob
    \/ \E args \in ArgTuples, kwargs \in KwMappings : BuilderCall(args, kwargs)
    \/ BuilderRead
    \/ BuilderExit
    \/ BuilderExitEnd
    \/ PlanItem(1)
    \/ EndPlan(1)
    \/ Submit(1)
    \/ Persist(1)
    \/ \E c \in 1..Len(schedd) : \E j \in 1..MaxItems : RunJob(c, j)

SpecBuild == Init /\ [][NextBuild]_vars

\* ------------------------------------------------------ HTCMapper.productmap
\* d[key] = v on a mapping: the value is replaced, or the pair added last.
SetItem(d, key, v) ==
    IF \E i \in 1..Len(d) : d[i][1] = key
    THEN [i \in 1..Len(d) |-> IF d[i][1] = key THEN <<key, v>> ELSE d[i]]
    ELSE Append(d, <<key, v>>)

RECURSIVE RepeatedTiled(_, _)
\* A list that holds the whole of dicts n times over, one copy after the other.
RepeatedTiled(dicts, n) ==
    IF n = 0 THEN <<>> ELSE dicts \o RepeatedTiled(dicts, n - 1)

RECURSIVE Times(_, _)
\* n copies of a mapping.
Times(d, n) == IF n = 0 THEN <<>> ELSE <<d>> \o Times(d, n - 1)

RECURSIVE Repeated(_, _)
\* [deepcopy(d) for d in dicts for _ in range(n)]: each mapping n times in a row.
Repeated(dicts, n) ==
    IF dicts = <<>> THEN <<>> ELSE Times(Head(dicts), n) \o Repeated(Tail(dicts), n)

RECURSIVE AssignCycle(_, _, _, _)
\* for d, v in zip(dicts, itertools.cycle(values)): d[key] = v, from the
\* i-th step (from 0) on.
AssignCycle(dicts, key, values, i) ==
    IF dicts = <<>> THEN <<>>
    ELSE <<SetItem(Head(dicts), key, values[(i % Len(values)) + 1])>>
         \o AssignCycle(Tail(dicts), key, values, i + 1)

RECURSIVE product_dicts(_, _)
\* The for loop over kwargs.items() from one key on.
product_dicts(kwargs, dicts) ==
    IF kwargs = <<>> THEN dicts
    ELSE LET key == kwargs[1][1]
             values == kwargs[1][2]
         IN product_dicts(Tail(kwargs),
                          AssignCycle(Repeated(dicts, Len(values)), key, values, 0))

RECURSIVE PairEach(_, _)
\* zip(itertools.repeat(args), dicts)
PairEach(args, dicts) ==
    IF dicts = <<>> THEN <<>> ELSE <<<<args, Head(dicts)>>>> \o PairEach(args, Tail(dicts))

\* The work items of productmap(*args, **kwargs).
productmap(args, kwargs) == PairEach(args, product_dicts(kwargs, << <<>> >>))

\* The keyword arguments of a productmap call, in the order given: none, x,
\* x and y in either order, or x, y and k = [1, 2]; each value list from
\* 1..MaxArg, of at most MaxItems values.  The positional arguments: none or 1.
ValueLists == SeqsUpTo(1..MaxArg, MaxItems)
ProductKwargs ==
    {<<>>} \cup
    {<< <<"x", vx>> >> : vx \in ValueLists} \cup
    {<< <<"x", vx>>, <<"y", vy>> >> : vx \in ValueLists, vy \in ValueLists} \cup
    {<< <<"y", vy>>, <<"x", vx>> >> : vx \in ValueLists, vy \in ValueLists} \cup
    {<< <<"x", vx>>, <<"y", vy>>, <<"k", <<1, 2>> >> >> : vx \in ValueLists, vy \in ValueLists}
ProductArgs == {<<>>, <<1>>}

\* productmap(*args, **kwargs) is called: _map starts over the product.
ProductmapCall(args, kwargs) ==
    /\ bld.pc = "idle"
    /\ inv[1].pc = "idle"
    /\ bld' = [IdleBuild EXCEPT !.pc = "called", !.op = "productmap",
                                !.args = args, !.kwargs = kwargs]
    /\ inv' = [inv EXCEPT ![1] = Planning(productmap(args, kwargs))]
    /\ UNCHANGED <<inputs, outputs, mtime, hashes_files, schedd, recon, readers,
                   w, mg, map_dir, extras>>

NextProduct ==
    \/ /\ bld.pc = "idle"
       /\ \E args \in ProductArgs, kwargs \in ProductKwargs : ProductmapCall(args, kwargs)
    \/ PlanItem(1)
    \/ EndPlan(1)
    \/ Submit(1)
    \/ Persist(1)

SpecProduct == Init /\ [][NextProduct]_vars

\* ----------------------------------------------------------- HTCMapper.clean
\* utils.clean_dir(dir): every file of the directory is deleted.
clean_dir(dir) == <<>>

\* A clean_inputs that is given the outputs directory.
CleanInputsWrongDir ==
    /\ outputs' = clean_dir(outputs)
    /\ mtime' = clean_dir(mtime)
    /\ mg' = [IdleManage EXCEPT !.op = "clean_inputs"]
    /\ UNCHANGED <<inputs, hashes_files, schedd, inv, recon, readers, w, bld, map_dir, extras>>

\* clean_inputs()
CleanInputs ==
    /\ inputs' = clean_dir(inputs)
    /\ mg' = [IdleManage EXCEPT !.op = "clean_inputs"]
    /\ UNCHANGED <<outputs, mtime, hashes_files, schedd, inv, recon, readers, w, bld, map_dir, extras>>

\* clean_outputs()
CleanOutputs ==
    /\ outputs' = clean_dir(outputs)
    /\ mtime' = clean_dir(mtime)
    /\ mg' = [IdleManage EXCEPT !.op = "clean_outputs"]
    /\ UNCHANGED <<inputs, hashes_files, schedd, inv, recon, readers, w, bld, map_dir, extras>>

\* clean(): clean_inputs, clean_outputs and the two log directories.
Clean ==
    /\ inputs' = clean_dir(inputs)
    /\ outputs' = clean_dir(outputs)
    /\ mtime' = clean_dir(mtime)
    /\ job_logs' = clean_dir(job_logs)
    /\ mg' = [IdleManage EXCEPT !.op = "clean"]
    /\ UNCHANGED <<hashes_files, schedd, inv, recon, readers, w, bld, map_dir,
                   dec, iwi, avi, lg, qry>>

\* After a first map: a second invocation and the execution wrapper, with the
\* housekeeping called at any time.
NextClean ==
    \/ Start(2)
    \/ PlanItem(2)
    \/ EndPlan(2)
    \/ Submit(2)
    \/ Persist(2)
    \/ \E c \in 1..Len(schedd) : \E j \in 1..MaxItems : RunJob(c, j)
    \/ CleanInputs
    \/ CleanOutputs
    \/ Clean

SpecClean == InitRead /\ [][NextClean]_vars

\* ------------------------------------------- MapResult.remove and management
\* The map of this HTCMapper, and a map id under which there is no map.
MapIds == {"m", "other"}

\* Whether the directory of the map exists.
MapExists(map_id) == map_id = "m" /\ map_dir

\* Schedd().act(JobAction.Remove, 'ClusterId==<clusterid>'): the jobs of that
\* cluster leave the queue; a clusterid of None matches no job.
ActRemove(clusterid) ==
    [c \in 1..Len(schedd) |->
        IF clusterid = <<c>> THEN [schedd[c] EXCEPT !.removed = TRUE] ELSE schedd[c]]

\* MapResult.remove() on a returned MapResult.
HandleRemove(p) ==
    /\ inv[p].pc = "done"
    /\ schedd' = ActRemove(Handle(p).clusterid)
    /\ mg' = [IdleManage EXCEPT !.op = "remove", !.map_id = "m"]
    /\ UNCHANGED <<inputs, outputs, mtime, hashes_files, inv, recon, readers, w, bld, map_dir, extras>>

\* What Map.load(map_id) raises: nothing for a map that exists, else
\* MapIdNotFound, or the FileNotFoundError of a file it reads.
LoadRaises(map_id) ==
    IF MapExists(map_id) THEN {"none"} ELSE {"MapIdNotFound", "FileNotFoundError"}

\* A handler that raises again what it caught.
RemoveOutcomeAsCaught(caught, not_exist_ok) ==
    IF caught = "none" \/ not_exist_ok THEN "none" ELSE caught

\* The except clause of management.remove: the exception that leaves it.
RemoveOutcome(caught, not_exist_ok) ==
    IF caught = "none" \/ not_exist_ok THEN "none" ELSE "MapIdNotFound"

\* management.remove(map_id, not_exist_ok): load, then Map.remove, which has
\* the scheduler remove the map's jobs and deletes the map's directory; or
\* the except clause.
ManagementRemove(map_id, not_exist_ok) ==
    \E caught \in LoadRaises(map_id) :
        /\ mg' = [IdleManage EXCEPT !.op = "management.remove", !.map_id = map_id,
                                    !.not_exist_ok = not_exist_ok, !.caught = caught,
                                    !.err = RemoveOutcome(caught, not_exist_ok)]
        /\ IF caught = "none"
           THEN /\ schedd' = [c \in 1..Len(schedd) |-> [schedd[c] EXCEPT !.removed = TRUE]]
                /\ inputs' = <<>>
                /\ outputs' = <<>>
                /\ mtime' = <<>>
                /\ hashes_files' = <<>>
                /\ map_dir' = FALSE
           ELSE UNCHANGED <<inputs, outputs, mtime, hashes_files, schedd, map_dir, extras>>
        /\ UNCHANGED <<inv, recon, readers, w, bld, extras>>

\* management.force_remove(map_id): shutil.rmtree of the map's directory,
\* errors ignored; the scheduler is not told.
ForceRemove(map_id) ==
    /\ mg' = [IdleManage EXCEPT !.op = "force_remove", !.map_id = map_id]
    /\ IF MapExists(map_id)
       THEN /\ inputs' = <<>>
            /\ outputs' = <<>>
            /\ mtime' = <<>>
            /\ hashes_files' = <<>>
            /\ map_dir' = FALSE
       ELSE UNCHANGED <<inputs, outputs, mtime, hashes_files, map_dir, extras>>
    /\ UNCHANGED <<schedd, inv, recon, readers, w, bld, extras>>

\* After a first map: the execution wrapper and the removals.
NextManage ==
    \/ \E c \in 1..Len(schedd) : \E j \in 1..MaxItems : RunJob(c, j)
    \/ \E p \in Invocations : HandleRemove(p)
    \/ \E map_id \in MapIds, not_exist_ok \in BOOLEAN : ManagementRemove(map_id, not_exist_ok)
    \/ \E map_id \in MapIds : ForceRemove(map_id)

SpecManage == InitRead /\ [][NextManage]_vars

\* --------------------------------------------------- the decorator htcmap
Function(name, k) == [kind |-> "func", name |-> name, k |-> k, func |-> <<>>]

\* HTCMapper(func, name = name)
Mapper(func, name) == [kind |-> "mapper", name |-> name, k |-> 0, func |-> <<func>>]

\* The functions that get decorated, and the name argument of htcmap: a
\* string, or None (also the bare @htcmap, whose name argument is the function).
Functions == {Function("foo", 1), Function("doubler", 2)}
NameArgs == {None, <<"m">>, <<"n">>}

\* A wrapper that takes what it is given as the function.
UnwrapNever(func) == func

\* if isinstance(func, HTCMapper): func = func.func
Unwrap(func) == IF func.kind = "mapper" THEN func.func[1] ELSE func

\* htcmap(name)(func), or htcmap(func) when name is None: the wrapper.
wrapper(func, name) ==
    LET f == Unwrap(func)
    IN Mapper(f, IF name # None THEN name[1] ELSE f.name)

RECURSIVE CallObject(_, _)
\* obj(x): a function multiplies; HTCMapper.__call__ calls self.func.
CallObject(obj, x) ==
    IF obj.kind = "mapper" THEN CallObject(obj.func[1], x) ELSE obj.k * x

\* def f(x): ...
Define(f) ==
    /\ dec.obj.kind = "none"
    /\ dec' = [IdleDec EXCEPT !.obj = f]
    /\ UNCHANGED <<planner, readers, callers, iwi, avi, job_logs, lg, qry>>

\* The decorator is applied to the object at hand.
Decorate(name) ==
    /\ dec.obj.kind # "none"
    /\ dec.applied < MaxApply
    /\ dec' = [obj |-> wrapper(dec.obj, name), prev |-> dec.obj,
               applied |-> dec.applied + 1, called |-> <<>>]
    /\ UNCHANGED <<planner, readers, callers, iwi, avi, job_logs, lg, qry>>

\* The mapper is called directly.
CallMapper(x) ==
    /\ dec.obj.kind = "mapper"
    /\ dec' = [dec EXCEPT !.called = <<x, CallObject(dec.obj, x)>>]
    /\ UNCHANGED <<planner, readers, callers, iwi, avi, job_logs, lg, qry>>

NextDecorate ==
    \/ \E f \in Functions : Define(f)
    \/ \E name \in NameArgs : Decorate(name)
    \/ \E x \in 1..MaxArg : CallMapper(x)

SpecDecorate == Init /\ [][NextDecorate]_vars

\* ------------------------------ iter_with_inputs, iter_as_available_with_inputs
\* inputs_dir / f'{h}.in' and outputs_dir / f'{h}.out'
InPath(h) == <<"inputs", h>>
OutPath(h) == <<"outputs", h>>

\* path.exists()
PathExists(path) ==
    path[2] \in DOMAIN (IF path[1] = "inputs" THEN inputs ELSE outputs)

RECURSIVE KwFromBytes(_)
KwFromBytes(b) ==
    IF Len(b) < 2 THEN <<>>
    ELSE << <<KeyNames[b[1]], b[2]>> >> \o KwFromBytes(SubSeq(b, 3, Len(b)))

\* The call (args, kwargs) that the bytes of an input blob hold: what to_bytes
\* wrote, read back.
from_bytes(b) ==
    LET sep == CHOOSE i \in 1..Len(b) : b[i] = 0 /\ \A j \in 1..(i - 1) : b[j] # 0
    IN <<SubSeq(b, 1, sep - 1), KwFromBytes(SubSeq(b, sep + 1, Len(b)))>>

\* htcio.load_object(path): the object in the file, a call for an input blob
\* and a result for an output blob.
load_object(path) ==
    IF path[1] = "inputs" THEN [kind |-> "call", v |-> from_bytes(inputs[path[2]])]
    ELSE [kind |-> "result", v |-> outputs[path[2]]]

\* iter_with_inputs() is called on a returned MapResult.
IwiStart(p) ==
    /\ iwi.pc = "idle"
    /\ inv[p].pc = "done"
    /\ iwi' = [pc |-> "run", hashes |-> Handle(p).hashes, yielded |-> <<>>]
    /\ UNCHANGED <<planner, readers, callers, dec, avi, job_logs, lg, qry>>

\* The consumer asks for the next pair: the wait for the output path returns
\* once it exists, the input and the output are loaded and yielded (h records
\* the hash the pair was yielded for).
IwiYield ==
    /\ iwi.pc = "run"
    /\ Len(iwi.yielded) < Len(iwi.hashes)
    /\ LET h == iwi.hashes[Len(iwi.yielded) + 1]
       IN /\ PathExists(OutPath(h))
          /\ iwi' = IF PathExists(InPath(h))
                    THEN [iwi EXCEPT !.yielded =
                             Append(@, [h |-> h, inp |-> load_object(InPath(h)),
                                        out |-> load_object(OutPath(h))])]
                    ELSE [iwi EXCEPT !.pc = "raised"]
    /\ UNCHANGED <<planner, readers, callers, dec, avi, job_logs, lg, qry>>

\* The loop of iter_with_inputs is over.
IwiEnd ==
    /\ iwi.pc = "run"
    /\ Len(iwi.yielded) = Len(iwi.hashes)
    /\ iwi' = [iwi EXCEPT !.pc = "done"]
    /\ UNCHANGED <<planner, readers, callers, dec, avi, job_logs, lg, qry>>

\* The pair of paths iter_as_available_with_inputs keeps for a hash:
\* (outputs_dir / f'{h}.out', outputs_dir / f'{h}.out').
AviPathPair(h) == <<OutPath(h), OutPath(h)>>

\* iter_as_available_with_inputs() is called on a returned MapResult.
AviStart(p) ==
    /\ avi.pc = "idle"
    /\ inv[p].pc = "done"
    /\ avi' = [pc |-> "loop", hashes |-> Handle(p).hashes,
               paths |-> {AviPathPair(h) : h \in AvPaths(Handle(p).hashes)},
               scan |-> {}, yielded |-> <<>>]
    /\ UNCHANGED <<planner, readers, callers, dec, iwi, job_logs, lg, qry>>

\* while len(paths) > 0: a pass over a copy of paths begins, or the generator ends.
AviPass ==
    /\ avi.pc = "loop"
    /\ avi' = IF avi.paths = {} THEN [avi EXCEPT !.pc = "done"]
              ELSE [avi EXCEPT !.pc = "scan", !.scan = avi.paths]
    /\ UNCHANGED <<planner, readers, callers, dec, iwi, job_logs, lg, qry>>

\* The pass visits a pair of the copy: when its output path is absent it is
\* skipped, else it is removed from paths, both of its paths are loaded and
\* the pair of objects is yielded.
AviVisit(pair) ==
    /\ avi.pc = "scan"
    /\ pair \in avi.scan
    /\ LET input_path == pair[1]
           output_path == pair[2]
       IN avi' = IF ~PathExists(output_path) THEN [avi EXCEPT !.scan = @ \ {pair}]
                 ELSE IF ~PathExists(input_path) THEN [avi EXCEPT !.pc = "raised"]
                 ELSE [avi EXCEPT !.scan = @ \ {pair}, !.paths = @ \ {pair},
                                  !.yielded = Append(@, [h |-> output_path[2],
                                                         inp |-> load_object(input_path),
                                                         out |-> load_object(output_path)])]
    /\ UNCHANGED <<planner, readers, callers, dec, iwi, job_logs, lg, qry>>

\* The pass is over: time.sleep(1), then the while condition again.
AviSleep ==
    /\ avi.pc = "scan"
    /\ avi.scan = {}
    /\ avi' = [avi EXCEPT !.pc = "loop"]
    /\ UNCHANGED <<planner, readers, callers, dec, iwi, job_logs, lg, qry>>

NextPairs ==
    \/ \E c \in 1..Len(schedd) : \E j \in 1..MaxItems : RunJob(c, j)
    \/ \E p \in Invocations : IwiStart(p)
    \/ IwiYield
    \/ IwiEnd
    \/ \E p \in Invocations : AviStart(p)
    \/ AviPass
    \/ \E pair \in avi.scan : AviVisit(pair)
    \/ AviSleep

SpecPairs == InitRead /\ [][NextPairs]_vars

\* ------------------------------------------------------ the per-item job logs
Streams == {"output", "error"}

\* A file of the job_logs directory is named by a hash and a suffix.
\* submit_dict: 'output' is job_logs_dir / '$(Item).output' and 'error' is
\* job_logs_dir / '$(Item).error', $(Item) being the job's hash.
submit_dict(key, item) == <<item, key>>

\* The file iter_output opens for a hash.
iter_output_path(h) == <<h, "out">>

\* The file iter_error opens for a hash.
iter_error_path(h) == <<h, "err">>

\* The lines a failing job leaves on a stream.
Diagnostics(stream) ==
    IF stream = "output" THEN << <<"running">> >>
    ELSE << <<"Traceback">>, <<"Error">> >>

\* ''.join(lines)
RECURSIVE Join(_)
Join(lines) == IF lines = <<>> THEN <<>> ELSE Head(lines) \o Join(Tail(lines))

\* A queued job of a batch that was not removed fails: no output blob is
\* written, and the scheduler leaves the job's stdout and stderr in the files
\* the submit description names.
FailJob(c, j) ==
    /\ c \in 1..Len(schedd)
    /\ j \in 1..Len(schedd[c].items)
    /\ ~schedd[c].removed
    /\ LET h == schedd[c].items[j]
       IN /\ h \notin DOMAIN outputs
          /\ submit_dict("output", h) \notin DOMAIN job_logs
          /\ job_logs' = Put(Put(job_logs, submit_dict("output", h), Diagnostics("output")),
                             submit_dict("error", h), Diagnostics("error"))
    /\ UNCHANGED <<planner, readers, callers, dec, iwi, avi, lg, qry>>

\* output(item) or error(item) on a returned MapResult: the item is resolved,
\* the file of the stream is opened and its lines are joined; open() of a file
\* that does not exist raises FileNotFoundError.
LogRead(p, item, stream) ==
    /\ lg.pc = "idle"
    /\ inv[p].pc = "done"
    /\ LET h == item_to_hash(Handle(p).hashes, item)
           path == IF stream = "output" THEN iter_output_path(h) ELSE iter_error_path(h)
           call == [IdleLog EXCEPT !.stream = stream]
       IN lg' = IF h = IndexError
                THEN [call EXCEPT !.pc = "raised", !.err = "IndexError"]
                ELSE IF path \notin DOMAIN job_logs
                THEN [call EXCEPT !.pc = "raised", !.h = h, !.err = "FileNotFoundError"]
                ELSE [call EXCEPT !.pc = "returned", !.h = h, !.text = Join(job_logs[path])]
    /\ UNCHANGED <<planner, readers, callers, dec, iwi, avi, job_logs, qry>>

\* The caller has its text or its exception, and may call again.
LogDone ==
    /\ lg.pc \in {"returned", "raised"}
    /\ lg' = IdleLog
    /\ UNCHANGED <<planner, readers, callers, dec, iwi, avi, job_logs, qry>>

NextLogs ==
    \/ \E c \in 1..Len(schedd) : \E j \in 1..MaxItems : RunJob(c, j)
    \/ \E c \in 1..Len(schedd) : \E j \in 1..MaxItems : FailJob(c, j)
    \/ lg.pc = "idle" /\ \E p \in Invocations : \E item \in GetItems, stream \in Streams :
           LogRead(p, item, stream)
    \/ LogDone

SpecLogs == InitRead /\ [][NextLogs]_vars

\* ------------------------------------------------------------ MapResult.query
\* The projections query is called with; None is the default.
Projections == {None, << <<>> >>, << <<"JobStatus">> >>}

\* The requirements expression of query and act: f'ClusterId=={self.clusterid}'.
Requirements(clusterid) == <<"ClusterId==", clusterid>>

\* htcondor.Schedd().xquery(requirements, projection): an ad, cut down to the
\* projection, for every job in the queue whose ClusterId is the one of the
\* requirements; no job has the ClusterId None.
xquery(requirements, projection) ==
    LET clusterid == requirements[2]
    IN IF clusterid = None THEN <<>>
       ELSE IF clusterid[1] \notin 1..Len(schedd) \/ schedd[clusterid[1]].removed THEN <<>>
       ELSE [j \in 1..Len(schedd[clusterid[1]].items) |->
                [ClusterId |-> clusterid[1], ProcId |-> j - 1, attrs |-> projection]]

\* list(query(projection)) on a returned MapResult.  When clusterid is None
\* the generator yields from the empty tuple and, having no return there, goes
\* on to the xquery as it does for any clusterid.
Query(p, projection) ==
    /\ qry.pc = "idle"
    /\ inv[p].pc = "done"
    /\ LET clusterid == Handle(p).clusterid
           proj == IF projection = None THEN <<>> ELSE projection[1]
           requirements == Requirements(clusterid)
       IN qry' = [pc |-> "done", clusterid |-> clusterid,
                  xqueries |-> <<requirements>>,
                  records |-> xquery(requirements, proj)]
    /\ UNCHANGED <<planner, readers, callers, dec, iwi, avi, job_logs, lg>>

\* The caller has its records, and may call again.
QueryDone ==
    /\ qry.pc = "done"
    /\ qry' = IdleQuery
    /\ UNCHANGED <<planner, readers, callers, dec, iwi, avi, job_logs, lg>>

\* After a first map: the jobs, a second invocation, and queries on the
\* returned handles.
NextQuery ==
    \/ Start(2)
    \/ PlanItem(2)
    \/ EndPlan(2)
    \/ Submit(2)
    \/ Persist(2)
    \/ \E c \in 1..Len(schedd) : \E j \in 1..MaxItems : RunJob(c, j)
    \/ qry.pc = "idle" /\ \E p \in Invocations : \E projection \in Projections :
           Query(p, projection)
    \/ QueryDone

SpecQuery == InitRead /\ [][NextQuery]_vars

\* ---------------------------------------------------------------- the claims
\* The batches an invocation handed to the scheduler.
BatchesOf(p) == {c \in 1..Len(schedd) : schedd[c].by = p}

\* How often a hash occurs in the item lists of all batches together.
Submissions(h) == SumSeq([c \in 1..Len(schedd) |-> Count(schedd[c].items, h)])

\* Every hash the scheduler was handed.
SubmittedHashes == UNION {AvPaths(schedd[c].items) : c \in 1..Len(schedd)}

\* NOT sat, per item.
Unsat(p) == [k \in 1..Len(inv[p].sat) |-> ~inv[p].sat[k]]

\* C1: over all invocations under the map name, a hash is handed to the
\* scheduler at most once in total, counting repeats inside one batch and
\* across batches.
C1_AtMostOneSubmission == \A h \in SubmittedHashes : Submissions(h) <= 1

\* C2: when the same map is invoked a second time with the same arguments and
\* every output of the first invocation was written before the second began,
\* the second hands nothing to the scheduler, returns clusterid None, and both
\* handles hold the same full hash sequence, one entry per work item.
C2_Idempotence ==
    \A p \in Invocations : \A q \in Invocations \ {p} :
        (/\ inv[p].pc = "done"
         /\ inv[q].pc \in {"plan", "submit", "persist", "done"}
         /\ inv[q].items = inv[p].items
         /\ inv[q].pre)
        => /\ BatchesOf(q) = {}
           /\ inv[q].pc \in {"plan", "done"}
           /\ inv[q].pc = "done" =>
                  /\ Handle(q).clusterid = None
                  /\ Handle(q).hashes = Handle(p).hashes
                  /\ Len(Handle(q).hashes) = Len(inv[q].items)

\* C2's case: a first invocation submitted its items, their outputs were
\* written, and a second invocation with the same arguments has returned.
C2_Witness ==
    \E p \in Invocations : \E q \in Invocations \ {p} :
        /\ inv[p].pc = "done" /\ inv[q].pc = "done"
        /\ inv[p].clusterid # None
        /\ Len(inv[p].items) = MaxItems
        /\ inv[q].items = inv[p].items
        /\ inv[q].pre

\* C3: for each work item in order, its hash is appended to the handle's
\* sequence; an item whose output existed when it was planned is left out of
\* the batch and its input is not saved; any other item has its input saved
\* under its hash and its hash put in the batch; the returned sequence has one
\* entry per requested work item.
C3_PlannerPartition ==
    \A p \in Invocations :
        inv[p].pc \in {"plan", "submit", "persist", "done"} =>
            /\ Len(inv[p].hashes) <= Len(inv[p].items)
            /\ Len(inv[p].sat) = Len(inv[p].hashes)
            /\ Len(inv[p].saved) = Len(inv[p].hashes)
            /\ \A k \in 1..Len(inv[p].hashes) :
                   /\ inv[p].hashes[k] = hash_bytes(to_bytes(inv[p].items[k]))
                   /\ inv[p].sat[k] => ~inv[p].saved[k]
                   /\ ~inv[p].sat[k] =>
                          /\ inv[p].saved[k]
                          /\ inv[p].hashes[k] \in DOMAIN inputs
                          /\ inputs[inv[p].hashes[k]] = to_bytes(inv[p].items[k])
            /\ inv[p].new_hashes = Pick(inv[p].hashes, Unsat(p))
            /\ inv[p].pc \in {"submit", "persist", "done"} =>
                   Len(inv[p].hashes) = Len(inv[p].items)

\* C3's case: a returned invocation planned one item whose output existed and
\* one whose output did not.
C3_Witness ==
    \E p \in Invocations :
        /\ inv[p].pc = "done"
        /\ \E j, k \in 1..Len(inv[p].sat) : inv[p].sat[j] /\ ~inv[p].sat[k]

\* C4: an invocation all of whose hashes had an output when planned (the empty
\* invocation too) makes no scheduler call, writes no manifest and returns
\* clusterid None; and a handle returned with clusterid None implies that every
\* one of its hashes had an output when planned.
C4_NoSubmissionIffAllSatisfied ==
    /\ DOMAIN hashes_files \subseteq 1..Len(schedd)
    /\ \A p \in Invocations :
           inv[p].pc = "done" =>
               /\ (\A k \in 1..Len(inv[p].sat) : inv[p].sat[k]) =>
                      /\ Handle(p).clusterid = None
                      /\ BatchesOf(p) = {}
                      /\ \A c \in DOMAIN hashes_files : schedd[c].by # p
               /\ Handle(p).clusterid = None =>
                      \A k \in 1..Len(inv[p].sat) : inv[p].sat[k]

\* C4's case: an invocation over at least one item returned clusterid None
\* while another invocation's batch is with the scheduler.
C4_Witness ==
    \E p \in Invocations :
        /\ inv[p].pc = "done"
        /\ Handle(p).clusterid = None
        /\ Len(Handle(p).hashes) > 0
        /\ schedd # <<>>

\* C5: an invocation with at least one hash lacking an output issues exactly
\* one batch, whose item list is the unsatisfied hashes in the order in which
\* they occur in the invocation's full hash sequence.
C5_OneOrderedBatch ==
    \A p \in Invocations :
        /\ Cardinality(BatchesOf(p)) <= 1
        /\ (inv[p].pc \in {"persist", "done"} /\ \E k \in 1..Len(inv[p].sat) : ~inv[p].sat[k])
           => /\ BatchesOf(p) = {inv[p].clusterid[1]}
              /\ schedd[inv[p].clusterid[1]].items = Pick(inv[p].hashes, Unsat(p))

\* C5's case: a returned invocation submitted a batch that leaves out a
\* satisfied hash.
C5_Witness ==
    \E p \in Invocations :
        /\ inv[p].pc = "done"
        /\ inv[p].clusterid # None
        /\ Len(schedd[inv[p].clusterid[1]].items) < Len(inv[p].hashes)
        /\ Len(schedd[inv[p].clusterid[1]].items) > 0

\* C6: with the submitting process crashing at any step, whenever the
\* invocation is over (returned or crashed), either the scheduler holds no
\* batch of it or the batch's manifest <clusterid>.hashes is on disk.
C6_ManifestOrNoBatch ==
    \A c \in 1..Len(schedd) :
        inv[schedd[c].by].pc \in {"done", "crashed"} => c \in DOMAIN hashes_files

\* C7: for an invocation that returned a handle with a clusterid,
\* reconstruct(clusterid) yields a handle with that clusterid and the same
\* ordered hash sequence, satisfied and unsatisfied hashes alike.
C7_ReattachRoundTrip ==
    \A p \in Invocations :
        (inv[p].pc = "done" /\ Handle(p).clusterid # None) =>
            /\ Handle(p).clusterid[1] \in DOMAIN hashes_files
            /\ recon.clusterid = Handle(p).clusterid =>
                   /\ recon.err = "none"
                   /\ recon.hashes = Handle(p).hashes

\* C7's case: the handle of a returned invocation, holding a satisfied and an
\* unsatisfied hash, has been reconstructed.
C7_Witness ==
    \E p \in Invocations :
        /\ inv[p].pc = "done"
        /\ recon.clusterid # None
        /\ recon.clusterid = Handle(p).clusterid
        /\ \E j, k \in 1..Len(inv[p].sat) : inv[p].sat[j] /\ ~inv[p].sat[k]

\* C8: iter() yields the outputs in request order: the k-th output yielded is
\* the output of the k-th hash, no output is yielded before the outputs of all
\* earlier hashes exist, and a finished iter() has yielded one output per hash.
C8_IterOrder ==
    /\ Len(it.yielded) <= Len(it.hashes)
    /\ \A k \in 1..Len(it.yielded) :
           /\ OutputExists(it.hashes[k])
           /\ it.yielded[k] = outputs[it.hashes[k]]
    /\ it.pc = "done" => Len(it.yielded) = Len(it.hashes)

\* C8's case: iter() is through a handle of two different hashes.
C8_Witness ==
    /\ it.pc = "done"
    /\ Len(it.hashes) >= 2
    /\ it.hashes[1] # it.hashes[2]

\* C9: a fully consumed iter_as_available() has yielded the same collection of
\* outputs as iter() over the same handle, each as often.
C9_AvailableSameAsIter ==
    (av.pc = "done" /\ it.pc = "done" /\ av.hashes = it.hashes) =>
        \A k \in 1..Len(it.yielded) :
            Count(av.yielded, it.yielded[k]) = Count(it.yielded, it.yielded[k])

\* C10: get(item, timeout) returns only the content of an output that exists;
\* with timeout 0 it gives up at its first check of an absent output and
\* raises OutputNotFound; with a timeout t > 0 it raises TimeoutError, never
\* OutputNotFound, and only at a check made when t has elapsed; and it raises
\* neither when the output was written before that check.
C10_GetTimeout ==
    /\ g.pc = "returned" =>
           /\ OutputExists(g.item)
           /\ mtime[g.item] <= g.start + g.elapsed
           /\ g.value = outputs[g.item]
    /\ (g.pc = "wait" /\ g.timeout = <<0>>) => WaitTimedOut(g.timeout, g.start)
    /\ (g.pc = "raised" /\ g.err \notin {"IndexError", "HashNotInResult"}) =>
           /\ OutputExists(g.item) => mtime[g.item] >= g.start + g.elapsed
           /\ g.timeout # None
           /\ g.timeout = <<0>> => g.err = "OutputNotFound"
           /\ g.timeout # <<0>> =>
                  /\ g.err = "TimeoutError"
                  /\ g.timeout[1] > 0
                  /\ g.elapsed >= g.timeout[1]

\* C10's case: a get with a positive timeout has raised TimeoutError.
C10_Witness ==
    /\ g.pc = "raised"
    /\ g.err = "TimeoutError"
    /\ g.timeout # None
    /\ g.timeout[1] > 0

\* C11: get(item) with an item that denotes no element of the handle's hash
\* sequence (an index out of range, or a hash that is not in the sequence)
\* raises HashNotInResult and loads no output, also when an output of that
\* hash exists.
C11_HashNotInResult ==
    (g.pc # "idle" /\ g.item \notin AvPaths(g.hashes)) =>
        /\ g.pc = "raised"
        /\ g.err = "HashNotInResult"
        /\ g.value = IdleGet.value

\* C12: wait(timeout) returns only when every hash of the handle has an
\* output, written before the return; while a hash is missing it goes on
\* polling, except that with a timeout that is not None it raises TimeoutError
\* at a poll made after the timeout has elapsed with a hash still missing; with
\* timeout None it never raises.
C12_Wait ==
    /\ w.pc = "returned" =>
           \A h \in w.hash_set : OutputExists(h) /\ mtime[h] <= w.start + w.elapsed
    /\ w.pc = "raised" =>
           /\ w.timeout # None
           /\ w.elapsed > w.timeout[1]
           /\ \E h \in w.hash_set :
                  OutputExists(h) => mtime[h] >= w.start + w.elapsed
    /\ (w.pc = "loop" /\ \E h \in w.hash_set : ~OutputExists(h)) =>
           /\ ~ENABLED WaitReturn
           /\ (w.timeout = None \/ now - w.start <= w.timeout[1]) => ~ENABLED WaitRaise
           /\ (w.timeout # None /\ now - w.start > w.timeout[1]) => ENABLED WaitRaise

\* C12's case: a wait with a timeout over a handle of two hashes has returned
\* after time passed.
C12_Witness ==
    /\ w.pc = "returned"
    /\ w.timeout # None
    /\ w.elapsed > 0
    /\ Cardinality(w.hash_set) = 2

\* The larger of the two lengths.
Longer(args, kwargs) == IF Len(args) > Len(kwargs) THEN Len(args) ELSE Len(kwargs)

\* C13: starmap over N > 1 positional tuples and exactly one keyword mapping
\* makes N work items that all carry that keyword mapping, and starmap over
\* one positional tuple and N > 1 keyword mappings makes N work items that all
\* carry that positional tuple.
C13_SoleElementReused ==
    bld.op = "starmap" =>
        LET m == Len(bld.args)
            n == Len(bld.kwargs)
            items == inv[1].items
        IN /\ (m > 1 /\ n = 1) =>
                  /\ Len(items) = m
                  /\ \A i \in 1..m : items[i] = <<bld.args[i], bld.kwargs[1]>>
           /\ (m = 1 /\ n > 1) =>
                  /\ Len(items) = n
                  /\ \A i \in 1..n : items[i] = <<bld.args[1], bld.kwargs[i]>>

\* C13, amended: starmap over N > 1 positional tuples and exactly one keyword
\* mapping makes N work items of which the first carries that keyword mapping
\* and every other the empty mapping; over one positional tuple and N > 1
\* keyword mappings, N work items of which the first carries that tuple and
\* every other the empty tuple.
C13_SoleElementThenFill ==
    bld.op = "starmap" =>
        LET m == Len(bld.args)
            n == Len(bld.kwargs)
            items == inv[1].items
        IN /\ (m > 1 /\ n = 1) =>
                  /\ Len(items) = m
                  /\ items[1] = <<bld.args[1], bld.kwargs[1]>>
                  /\ \A i \in 2..m : items[i] = <<bld.args[i], <<>> >>
           /\ (m = 1 /\ n > 1) =>
                  /\ Len(items) = n
                  /\ items[1] = <<bld.args[1], bld.kwargs[1]>>
                  /\ \A i \in 2..n : items[i] = << <<>>, bld.kwargs[i]>>

\* C13's case: a starmap over two positional tuples and the one keyword
\* mapping k = 1 has returned.
C13_Witness ==
    /\ bld.op = "starmap"
    /\ inv[1].pc = "done"
    /\ Len(bld.args) = 2
    /\ bld.kwargs = << << <<"k", 1>> >> >>

\* C14: zip_args_and_kwargs over m positional tuples and n keyword mappings
\* yields max(m, n) pairs; pair i holds the i-th positional tuple, or the
\* empty tuple past the m-th, and the i-th keyword mapping, or the empty
\* mapping past the n-th; it yields nothing when both are empty.
C14_ZipPads ==
    bld.op = "starmap" =>
        LET m == Len(bld.args)
            n == Len(bld.kwargs)
            items == inv[1].items
        IN /\ Len(items) = Longer(bld.args, bld.kwargs)
           /\ \A i \in 1..Len(items) :
                  /\ items[i][1] = IF i <= m THEN bld.args[i] ELSE <<>>
                  /\ items[i][2] = IF i <= n THEN bld.kwargs[i] ELSE <<>>
           /\ (m = 0 /\ n = 0) => items = <<>>

\* C14's case: a starmap over no positional tuple and two keyword mappings
\* has returned.
C14_Witness ==
    /\ bld.op = "starmap"
    /\ inv[1].pc = "done"
    /\ Len(bld.args) = 0
    /\ Len(bld.kwargs) = 2

RECURSIVE ProductSize(_)
\* The product of the lengths of the value lists.
ProductSize(kwargs) ==
    IF kwargs = <<>> THEN 1 ELSE Len(kwargs[1][2]) * ProductSize(Tail(kwargs))

\* How many consecutive combinations keep the value of the k-th key: the
\* number of combinations of the keys after it.
Stride(kwargs, k) == ProductSize(SubSeq(kwargs, k + 1, Len(kwargs)))

\* The n-th combination (from 1) in nested order, the last key fastest.
Combination(kwargs, n) ==
    [k \in 1..Len(kwargs) |->
        <<kwargs[k][1],
          kwargs[k][2][(((n - 1) \div Stride(kwargs, k)) % Len(kwargs[k][2])) + 1]>>]

\* C15: productmap over the keyword value lists k1..kn, in the order given,
\* plans len(k1) * ... * len(kn) work items, the i-th being the i-th
\* combination of the Cartesian product in nested order with the later keys
\* varying fastest (so none is missing and none repeated), each with the
\* call's positional tuple; the items are a function of the call alone.
C15_Product ==
    bld.op = "productmap" =>
        /\ Len(inv[1].items) = ProductSize(bld.kwargs)
        /\ \A i \in 1..Len(inv[1].items) :
               inv[1].items[i] = <<bld.args, Combination(bld.kwargs, i)>>

\* C15's case: productmap(x = [1, 2], y = [1, 2]) planned (1,1), (1,2),
\* (2,1), (2,2) in this order and returned.
C15_Witness ==
    /\ bld.op = "productmap"
    /\ inv[1].pc = "done"
    /\ bld.kwargs = << <<"x", <<1, 2>> >>, <<"y", <<1, 2>> >> >>
    /\ [i \in 1..4 |-> inv[1].items[i][2]] =
           << << <<"x", 1>>, <<"y", 1>> >>, << <<"x", 1>>, <<"y", 2>> >>,
              << <<"x", 2>>, <<"y", 1>> >>, << <<"x", 2>>, <<"y", 2>> >> >>

\* Every output blob stays, with its content.
OutputsKept == \A h \in DOMAIN outputs : h \in DOMAIN outputs' /\ outputs'[h] = outputs[h]

\* C17: no step of the core (map invocations, reads, clean, clean_outputs)
\* or of the execution wrapper deletes or changes an output blob that exists:
\* a READY item never becomes PENDING again.
C17_OutputsWriteOnce == [][OutputsKept]_vars

\* C17, amended: an output blob that exists is deleted or changed by no step
\* other than clean() and clean_outputs(), which delete every output blob;
\* map invocations, clean_inputs and the execution wrapper leave it as it is.
C17_OutputsKeptButByClean == [][OutputsKept \/ CleanOutputs \/ Clean]_vars

\* C17's case: clean_inputs emptied the inputs directory while outputs exist,
\* and they are still there.
C17_Witness ==
    /\ mg.op = "clean_inputs"
    /\ inputs = <<>>
    /\ outputs # <<>>

\* C18: after remove() on a map that exists returned (MapResult.remove on
\* its handle, or management.remove of its map id), the scheduler has removed
\* the map's jobs and nothing of the map is on disk: no directory, no
\* manifest, no input and no output, so that loading it fails.
C18_RemoveDeletesMap ==
    (mg.op \in {"remove", "management.remove"} /\ mg.map_id = "m" /\ mg.caught = "none") =>
        /\ \A c \in 1..Len(schedd) :
               (mg.op = "remove" => \E p \in Invocations : Handle(p).clusterid = <<c>>)
                   => schedd[c].removed
        /\ ~MapExists("m")
        /\ hashes_files = <<>>
        /\ inputs = <<>>
        /\ outputs = <<>>

\* C19: a management.remove of a map id under which there is no map changes
\* nothing in the stores of the maps there are and in the scheduler's queue;
\* with not_exist_ok it returns, without it it raises MapIdNotFound, whether
\* the load raised MapIdNotFound or FileNotFoundError.
C19_RemoveMissingMap ==
    [][(mg' # mg /\ mg'.op = "management.remove" /\ ~MapExists(mg'.map_id)) =>
           /\ UNCHANGED <<inputs, outputs, mtime, hashes_files, schedd, map_dir>>
           /\ mg'.caught \in {"MapIdNotFound", "FileNotFoundError"}
           /\ mg'.err = IF mg'.not_exist_ok THEN "none" ELSE "MapIdNotFound"]_vars

\* C19's case: management.remove(map_id, not_exist_ok = False) of a missing
\* map raised MapIdNotFound out of a FileNotFoundError, the outputs of the map
\* that exists being on disk.
C19_Witness ==
    /\ mg.op = "management.remove"
    /\ mg.map_id = "other"
    /\ ~mg.not_exist_ok
    /\ mg.caught = "FileNotFoundError"
    /\ mg.err = "MapIdNotFound"
    /\ outputs # <<>>

\* The calls a builder accumulated, as work items in call order.
CallsOf(b) == [i \in 1..Len(b.args) |-> <<b.args[i], b.kwargs[i]>>]

HasUnserializable(p) ==
    \E i \in 1..Len(inv[p].items) : ~Serializable(inv[p].items[i])

\* C20: an invocation with a work item that cannot be serialized, at whatever
\* position, ends with the error of that item: it never gets past the
\* planning loop, hands no batch to the scheduler, writes no manifest and
\* returns no handle; and _map raises only at such an item.
C20_SerializationAborts ==
    \A p \in Invocations :
        /\ HasUnserializable(p) =>
               /\ inv[p].pc \in {"plan", "raised"}
               /\ BatchesOf(p) = {}
               /\ \A c \in DOMAIN hashes_files : schedd[c].by # p
               /\ bld.result = None
        /\ inv[p].pc = "raised" =>
               ~Serializable(inv[p].items[Len(inv[p].hashes) + 1])

\* C20's case: _map raised at its second work item, the input of the first
\* being saved already.
C20_Witness ==
    /\ inv[1].pc = "raised"
    /\ Len(inv[1].hashes) = 1
    /\ inputs # <<>>

RECURSIVE Underlying(_)
\* The function at the bottom of an object.
Underlying(obj) == IF obj.kind = "mapper" THEN Underlying(obj.func[1]) ELSE obj

\* C21: what the decorator gives is a mapper whose func is a function, never
\* a mapper, namely the function at the bottom of the object it was applied
\* to, however often it was applied; and calling the mapper gives what
\* calling that function gives.
C21_DecoratorIdempotent ==
    dec.obj.kind = "mapper" =>
        /\ dec.obj.func[1].kind = "func"
        /\ dec.obj.func[1] = Underlying(dec.prev)
        /\ dec.called # <<>> =>
               dec.called[2] = Underlying(dec.prev).k * dec.called[1]

\* C21's case: the decorator was applied MaxApply times on top of the
\* doubler, and the mapper was called.
C21_Witness ==
    /\ dec.applied = MaxApply
    /\ dec.prev.kind = "mapper"
    /\ dec.obj.func[1].name = "doubler"
    /\ dec.called # <<>>

\* Whether what was yielded for a hash is the pair of the call in its input
\* blob and the result in its output blob.
IsInputOutputPair(y) ==
    /\ y.inp.kind = "call"
    /\ y.inp.v = from_bytes(inputs[y.h])
    /\ y.out.kind = "result"
    /\ y.out.v = outputs[y.h]

\* C22: every pair iter_as_available_with_inputs yields for a hash is the
\* content of the hash's input blob with the content of its output blob, as
\* the pairs of iter_with_inputs are.
C22_AvailablePairs ==
    /\ \A k \in 1..Len(iwi.yielded) : IsInputOutputPair(iwi.yielded[k])
    /\ \A k \in 1..Len(avi.yielded) : IsInputOutputPair(avi.yielded[k])

\* C23: a log the scheduler wrote for a submitted hash is readable through the
\* handle: output(item) and error(item) of that hash open the file the submit
\* description names, and return its text.
C23_LogPathsAgree ==
    (/\ lg.pc \in {"returned", "raised"}
     /\ lg.err # "IndexError"
     /\ submit_dict(lg.stream, lg.h) \in DOMAIN job_logs)
    => /\ lg.pc = "returned"
       /\ lg.text = Join(job_logs[submit_dict(lg.stream, lg.h)])

\* The hashes iter_as_available was asked for, and those it has handed over.
Requested == AvPaths(av.hashes)
Delivered == Requested \ av.paths

\* Every output still awaited by the iteration is present (and outputs stay).
AllPresent == av.pc # "idle" /\ av.paths \subseteq DOMAIN outputs

\* The iteration has ended, having yielded the output of every requested hash.
AllDelivered ==
    /\ av.pc = "done"
    /\ Requested \subseteq DOMAIN outputs
    /\ Len(av.yielded) = Cardinality(Requested)
    /\ {av.yielded[k] : k \in 1..Len(av.yielded)} = {outputs[h] : h \in Requested}

\* While a requested output is absent the iteration has not ended and has not
\* yielded it: what was yielded is one output per hash handed over.
AbsentNotDelivered ==
    /\ \A h \in Requested : h \notin DOMAIN outputs => av.pc # "done" /\ h \in av.paths
    /\ Len(av.yielded) = Cardinality(Delivered)
    /\ av.pc = "done" => av.paths = {}

\* C24: once every requested output is present, and stays, a caller that keeps
\* consuming iter_as_available receives all the outputs and the iteration
\* ends; while a requested output is absent the iteration does not end and
\* does not yield it.
C24_EventualDelivery ==
    /\ [](av.pc # "idle" => AbsentNotDelivered)
    /\ AllPresent ~> AllDelivered

\* The iteration over two hashes has ended with both outputs.
C24_Witness ==
    /\ AllDelivered
    /\ Cardinality(Requested) = 2

\* C25: query() on a handle whose clusterid is None yields no record and
\* makes no query on the scheduler.
C25_QueryWithoutCluster ==
    (qry.pc = "done" /\ qry.clusterid = None)
    => /\ qry.records = <<>>
       /\ qry.xqueries = <<>>

====
